---- MODULE Spec2Model ----
(***************************************************************************)
(* Model of the streaming renderer of terminal-chat.py: the table state    *)
(* machine (TableState), the line-buffering collector (StreamCollector)    *)
(* with its two entry points collect and collect_text, and the sequence of *)
(* calls they make to Renderer.prose and Renderer.table.                   *)
(*                                                                         *)
(* A text is a sequence of one-character strings.  One behaviour fixes a   *)
(* text, feeds it to one collector in arbitrary fragments (collect) and to *)
(* a second, fresh collector in one piece (collect_text).                  *)
(*                                                                         *)
(* Spec        texts of up to MaxLines lines and an unterminated tail      *)
(* SpecTables  the same collectors on longer texts of table lines          *)
(* SpecStyle   Markdown.style and Renderer.prose on one line               *)
(* SpecGrid    Renderer.table on one block, up to the rows and alignments  *)
(*             it gives to PrettyTable                                     *)
(* SpecWidths  Renderer.table on one block, up to the widths its cells are  *)
(*             wrapped to                                                  *)
(* SpecConvo   Conversation.add and build, and "/cmd history <n>"          *)
(***************************************************************************)
EXTENDS Integers, Sequences, FiniteSets, TLC

\* ------------------------------------------------------------------------
\* Bounds of the model
\* ------------------------------------------------------------------------
MaxLines == 3
MaxSkipped == 1
MaxTableLines == 4
MaxStyleLen == 4
MaxApplied == 2
MaxRows == 2
MaxCells == 2
MaxWidthRows == 1
MaxWidthCols == 2
MaxPairs == 2
MaxStored == 2
MaxMessages == 5

NL == "\n"

\* the newline-terminated lines a text is made of
LineSet ==
  { <<>>, <<" ">>, <<"a">>, <<"|">>, <<"-", "|", "-">>, <<"|", "-", "|">> }

\* the unterminated tail a text may end with
PartialSet ==
  { <<>>, <<" ">>, <<"a">>, <<"|">> }

\* ------------------------------------------------------------------------
\* String helpers (str.strip, "in", str.split("\n", 1), "\n".join)
\* ------------------------------------------------------------------------
RECURSIVE LStrip(_)
LStrip(s) ==
  IF s # <<>> /\ Head(s) \in {" ", NL} THEN LStrip(Tail(s)) ELSE s

RECURSIVE RStrip(_)
RStrip(s) ==
  IF s # <<>> /\ s[Len(s)] \in {" ", NL}
    THEN RStrip(SubSeq(s, 1, Len(s) - 1))
    ELSE s

Strip(s) == RStrip(LStrip(s))

Contains(s, ch) == \E i \in DOMAIN s : s[i] = ch

\* index of the first newline of s (s contains one)
FirstNL(s) == CHOOSE i \in DOMAIN s : s[i] = NL /\ \A j \in 1..(i - 1) : s[j] # NL

SplitHead(s) == SubSeq(s, 1, FirstNL(s) - 1)

SplitRest(s) == SubSeq(s, FirstNL(s) + 1, Len(s))

RECURSIVE Join(_)
Join(ls) ==
  IF ls = <<>> THEN <<>>
  ELSE IF Len(ls) = 1 THEN ls[1]
  ELSE ls[1] \o <<NL>> \o Join(Tail(ls))

\* ------------------------------------------------------------------------
\* The separator pattern of TableState.feed:
\*   ^\|?\s*-+\s*(\|\s*-+\s*)+\|?$
\* ------------------------------------------------------------------------
\* first index >= i of s that does not hold ch (Len(s) + 1 when none)
RECURSIVE SkipWhile(_, _, _)
SkipWhile(s, i, ch) ==
  IF i <= Len(s) /\ s[i] = ch THEN SkipWhile(s, i + 1, ch) ELSE i

\* (\|\s*-+\s*)+\|?$  from index i on, n groups matched so far
RECURSIVE MatchGroups(_, _, _)
MatchGroups(s, i, n) ==
  IF i <= Len(s) /\ s[i] = "|"
    THEN LET j == SkipWhile(s, i + 1, " ")
             k == SkipWhile(s, j, "-")
         IN  IF k > j
               THEN MatchGroups(s, SkipWhile(s, k, " "), n + 1)
               ELSE n >= 1 /\ i = Len(s)
    ELSE n >= 1 /\ i = Len(s) + 1

IsSeparator(s) ==
  /\ s # <<>>
  /\ LET i == IF s[1] = "|" THEN 2 ELSE 1
         j == SkipWhile(s, i, " ")
         k == SkipWhile(s, j, "-")
     IN  /\ k > j
         /\ MatchGroups(s, SkipWhile(s, k, " "), 0)

\* ------------------------------------------------------------------------
\* TableState
\* ------------------------------------------------------------------------
TableState == [state |-> "NONE", lines |-> <<>>]

Result(tag, ls, l) == [tag |-> tag, lines |-> ls, line |-> l]

\* feed in state NONE, forgetting to return HOLD for a line with a pipe
feed_NONE_NoHold(t, line) ==
  IF Contains(Strip(line), "|")
    THEN [table |-> [state |-> "HEADER", lines |-> <<line>>],
          result |-> Result("NO", <<>>, <<>>)]
    ELSE [table |-> t, result |-> Result("NO", <<>>, <<>>)]

\* TableState.feed(line) in state NONE: the new object and the value returned
feed_NONE(t, line) ==
  LET stripped == Strip(line) IN
  IF Contains(stripped, "|")
    THEN [table |-> [state |-> "HEADER", lines |-> <<line>>],
          result |-> Result("HOLD", <<>>, <<>>)]
    ELSE [table |-> t, result |-> Result("NO", <<>>, <<>>)]

\* TableState.feed(line) in state HEADER
feed_HEADER(t, line) ==
  LET stripped == Strip(line) IN
  IF IsSeparator(stripped)
    THEN [table |-> [state |-> "TABLE", lines |-> Append(t.lines, line)],
          result |-> Result("HOLD", <<>>, <<>>)]
    ELSE [table |-> [state |-> "NONE", lines |-> <<>>],
          result |-> Result("FLUSH_BACK", t.lines, <<>>)]

\* feed in state TABLE, forgetting to clear the buffer when the table ends
feed_TABLE_KeepLines(t, line) ==
  IF Contains(Strip(line), "|")
    THEN [table |-> [state |-> "TABLE", lines |-> Append(t.lines, line)],
          result |-> Result("HOLD", <<>>, <<>>)]
    ELSE [table |-> [state |-> "NONE", lines |-> t.lines],
          result |-> Result("FLUSH_TABLE", t.lines, line)]

\* TableState.feed(line) in state TABLE
feed_TABLE(t, line) ==
  LET stripped == Strip(line) IN
  IF Contains(stripped, "|")
    THEN [table |-> [state |-> "TABLE", lines |-> Append(t.lines, line)],
          result |-> Result("HOLD", <<>>, <<>>)]
    ELSE [table |-> [state |-> "NONE", lines |-> <<>>],
          result |-> Result("FLUSH_TABLE", t.lines, line)]

\* TableState.feed(line)
feed(t, line) ==
  IF t.state = "NONE" THEN feed_NONE(t, line)
  ELSE IF t.state = "HEADER" THEN feed_HEADER(t, line)
  ELSE feed_TABLE(t, line)

\* flush_tail that returns the table but forgets to reset the object
flush_tail_NoReset(t) ==
  IF t.state = "TABLE"
    THEN [table |-> t, result |-> Result("FLUSH_TABLE", t.lines, <<>>)]
    ELSE [table |-> t, result |-> Result("None", <<>>, <<>>)]

\* TableState.flush_tail(): tag "None" is the None it returns
flush_tail(t) ==
  IF t.state = "TABLE"
    THEN [table |-> [state |-> "NONE", lines |-> <<>>],
          result |-> Result("FLUSH_TABLE", t.lines, <<>>)]
    ELSE [table |-> t, result |-> Result("None", <<>>, <<>>)]

\* ------------------------------------------------------------------------
\* Renderer calls: what is recorded of a call is the function and its
\* argument
\* ------------------------------------------------------------------------
prose(line) == [fn |-> "prose", arg |-> line]

table(markdown_block) == [fn |-> "table", arg |-> markdown_block]

RECURSIVE ProseEach(_)
ProseEach(ls) ==
  IF ls = <<>> THEN <<>> ELSE <<prose(Head(ls))>> \o ProseEach(Tail(ls))

\* ------------------------------------------------------------------------
\* StreamCollector
\* ------------------------------------------------------------------------
None == [kind |-> "None", value |-> <<>>]

Str(s) == [kind |-> "str", value |-> s]

\* fed is not a field of the class: it records the lines given to
\* self.table.feed so far, in order
StreamCollector ==
  [partial |-> <<>>, table |-> TableState, full_text |-> <<>>,
   fed |-> <<>>, out |-> <<>>, pc |-> "run", ret |-> None]

\* the FLUSH_BACK branch with the current line rendered first
Dispatch_FLUSH_BACK_LineFirst(result, line) ==
  <<prose(line)>> \o ProseEach(result.lines)

\* the calls made for a FLUSH_BACK returned by feed
Dispatch_FLUSH_BACK(result, line) ==
  ProseEach(result.lines) \o <<prose(line)>>

\* the FLUSH_TABLE branch without the call for the trailing line
Dispatch_FLUSH_TABLE_NoTrailing(result) ==
  <<table(Join(result.lines))>>

\* the FLUSH_TABLE branch with the trailing line rendered before the table
Dispatch_FLUSH_TABLE_TrailingFirst(result) ==
  (IF result.line # <<>> THEN <<prose(result.line)>> ELSE <<>>)
  \o <<table(Join(result.lines))>>

\* the calls made for a FLUSH_TABLE returned by feed
Dispatch_FLUSH_TABLE(result) ==
  <<table(Join(result.lines))>>
  \o (IF result.line # <<>> THEN <<prose(result.line)>> ELSE <<>>)

\* the calls made for one value returned by feed (the if/elif chain)
Dispatch(result, line) ==
  IF result.tag = "NO" THEN <<prose(line)>>
  ELSE IF result.tag = "FLUSH_BACK" THEN Dispatch_FLUSH_BACK(result, line)
  ELSE IF result.tag = "FLUSH_TABLE" THEN Dispatch_FLUSH_TABLE(result)
  ELSE <<>>

\* the loop of collect with an if in place of the while: one line per round
CollectLoop_Once(c) ==
  IF ~Contains(c.partial, NL) THEN c
  ELSE LET line == SplitHead(c.partial)
           f    == feed(c.table, line)
       IN  [c EXCEPT !.partial = SplitRest(c.partial),
                     !.table = f.table,
                     !.fed = Append(c.fed, line),
                     !.out = c.out \o Dispatch(f.result, line)]

\* the while loop of collect
RECURSIVE CollectLoop(_)
CollectLoop(c) ==
  IF ~Contains(c.partial, NL) THEN c
  ELSE LET line == SplitHead(c.partial)
           f    == feed(c.table, line)
       IN  CollectLoop([c EXCEPT !.partial = SplitRest(c.partial),
                                 !.table = f.table,
                                 !.fed = Append(c.fed, line),
                                 !.out = c.out \o Dispatch(f.result, line)])

\* the loop of collect_text stopping after the first line
CollectTextLoop_FirstLine(c) ==
  IF ~Contains(c.partial, NL) THEN c
  ELSE LET line == SplitHead(c.partial)
           f    == feed(c.table, line)
       IN  [c EXCEPT !.partial = SplitRest(c.partial),
                     !.table = f.table,
                     !.fed = Append(c.fed, line),
                     !.out = c.out \o Dispatch(f.result, line)]

\* the while loop of collect_text
RECURSIVE CollectTextLoop(_)
CollectTextLoop(c) ==
  IF ~Contains(c.partial, NL) THEN c
  ELSE LET line == SplitHead(c.partial)
           f    == feed(c.table, line)
       IN  CollectTextLoop([c EXCEPT !.partial = SplitRest(c.partial),
                                     !.table = f.table,
                                     !.fed = Append(c.fed, line),
                                     !.out = c.out \o Dispatch(f.result, line)])

\* the end of an entry point that feeds the partial line to the detector as
\* if it were a complete line, before flush_tail
Tail_FeedPartial(c) ==
  LET f    == feed(c.table, c.partial)
      o0   == IF Strip(c.partial) # <<>>
                THEN c.out \o Dispatch(f.result, c.partial)
                ELSE c.out
      t0   == IF Strip(c.partial) # <<>> THEN f.table ELSE c.table
      tail == flush_tail(t0)
      o1   == IF tail.result.tag # "None"
                THEN o0 \o <<table(Join(tail.result.lines))>>
                ELSE o0
  IN  [c EXCEPT !.table = tail.table, !.out = o1, !.pc = "done",
                !.fed = IF Strip(c.partial) # <<>>
                          THEN Append(c.fed, c.partial)
                          ELSE c.fed]

\* the end of both entry points: flush_tail, then the partial line
Tail_(c) ==
  LET tail == flush_tail(c.table)
      o1   == IF tail.result.tag # "None"
                THEN c.out \o <<table(Join(tail.result.lines))>>
                ELSE c.out
      o2   == IF Strip(c.partial) # <<>>
                THEN o1 \o <<prose(c.partial)>>
                ELSE o1
  IN  [c EXCEPT !.table = tail.table, !.out = o2, !.pc = "done"]

\* ------------------------------------------------------------------------
\* State
\* ------------------------------------------------------------------------
VARIABLES
  text,       \* the whole content of the response
  pos,        \* number of characters of text delivered so far by the stream
  skipped,    \* stream events without content seen so far
  streamed,   \* the collector running collect(response)
  whole,      \* the collector running collect_text(text)
  md,         \* a run of Markdown.style and Renderer.prose on one line
  tb,         \* a run of Renderer.table on one block
  convo       \* the Conversation of interactive_loop

vars == <<text, pos, skipped, streamed, whole, md, tb, convo>>

\* the renderer runs are followed by specifications of their own
MdIdle ==
  [pc |-> "off", mode |-> "rich", ansi |-> FALSE, line |-> <<>>,
   arg |-> <<>>, styled |-> [kind |-> "None", value |-> <<>>],
   applied |-> 0, printed |-> <<>>]

TbIdle ==
  [pc |-> "off", block |-> <<>>, hdr |-> <<>>, src_rows |-> <<>>,
   headers |-> <<>>, rows |-> <<>>, col_count |-> 0, numeric_cols |-> {},
   normalized_rows |-> <<>>, align |-> <<>>,
   mode |-> "rich", ansi |-> FALSE,
   raw_widths |-> <<>>, col_widths |-> <<>>, wrap_widths |-> <<>>]

ConvoIdle ==
  [op |-> "off", max_pairs |-> 0, messages |-> <<>>, msgs |-> <<>>]

RECURSIVE TextOf(_, _)
TextOf(ls, p) ==
  IF ls = <<>> THEN p ELSE Head(ls) \o <<NL>> \o TextOf(Tail(ls), p)

\* length of the longest text: each line has at most 3 characters and a
\* newline, the tail has at most one character
MaxTextLen ==
  IF MaxLines * 4 + 1 > MaxTableLines * 4
    THEN MaxLines * 4 + 1
    ELSE MaxTableLines * 4

LineSeqs == UNION { [1..n -> LineSet] : n \in 0..MaxLines }

Init ==
  /\ \E ls \in LineSeqs, p \in PartialSet : text = TextOf(ls, p)
  /\ pos = 0
  /\ skipped = 0
  /\ streamed = StreamCollector
  /\ whole = StreamCollector
  /\ md = MdIdle
  /\ tb = TbIdle
  /\ convo = ConvoIdle

\* one round of the for loop of collect with a content fragment of k
\* characters
Collect(k) ==
  /\ streamed.pc = "run"
  /\ k >= 1
  /\ pos + k <= Len(text)
  /\ LET content == SubSeq(text, pos + 1, pos + k)
     IN  streamed' = CollectLoop([streamed EXCEPT
                                    !.partial = streamed.partial \o content,
                                    !.full_text = streamed.full_text \o content])
  /\ pos' = pos + k
  /\ UNCHANGED <<text, skipped, whole, md, tb, convo>>

\* one round of the for loop that is skipped: an empty raw line, a line
\* without the "data: " prefix, or a chunk whose content is empty or absent
CollectSkip ==
  /\ streamed.pc = "run"
  /\ skipped < MaxSkipped
  /\ skipped' = skipped + 1
  /\ UNCHANGED <<text, pos, streamed, whole, md, tb, convo>>

\* the stream ends, or "[DONE]" arrives: the code after the for loop
CollectEnd ==
  /\ streamed.pc = "run"
  /\ pos = Len(text)
  /\ streamed' = [Tail_(streamed) EXCEPT !.ret = Str(streamed.full_text)]
  /\ UNCHANGED <<text, pos, skipped, whole, md, tb, convo>>

\* collect_text(text) on a fresh collector; it has no return statement
CollectText ==
  /\ whole.pc = "run"
  /\ whole' = [Tail_(CollectTextLoop([whole EXCEPT !.partial = text,
                                                   !.full_text = text]))
                 EXCEPT !.ret = None]
  /\ UNCHANGED <<text, pos, skipped, streamed, md, tb, convo>>

\* response.iter_lines() raises (httpx.RequestError) in the middle of the
\* stream: the exception leaves collect from inside the for loop, and
\* interactive_loop catches it, prints the error and returns
CollectError ==
  /\ streamed.pc = "run"
  /\ streamed' = [streamed EXCEPT !.pc = "error"]
  /\ UNCHANGED <<text, pos, skipped, whole, md, tb, convo>>

Next ==
  \/ \E k \in 1..MaxTextLen : Collect(k)
  \/ CollectSkip
  \/ CollectEnd
  \/ CollectError
  \/ CollectText

Spec == Init /\ [][Next]_vars

\* the lines of texts made of table material only: a pipe line, a separator
\* and a line without a pipe
TableLineSet == { <<"a">>, <<"|">>, <<"-", "|", "-">> }

TableLineSeqs == UNION { [1..n -> TableLineSet] : n \in 0..MaxTableLines }

\* longer texts, all lines terminated
InitTables ==
  /\ \E ls \in TableLineSeqs : text = TextOf(ls, <<>>)
  /\ pos = 0
  /\ skipped = 0
  /\ streamed = StreamCollector
  /\ whole = StreamCollector
  /\ md = MdIdle
  /\ tb = TbIdle
  /\ convo = ConvoIdle

SpecTables == InitTables /\ [][Next]_vars

\* ------------------------------------------------------------------------
\* Markdown.style and Renderer.prose
\* ------------------------------------------------------------------------
\* the escape sequences; ESC stands for the character \033
ANSI_RESET == <<"ESC", "[", "0", "m">>

ANSI_BOLD == <<"ESC", "[", "1", "m">>

ANSI_GRAY == <<"ESC", "[", "9", "0", "m">>

\* s holds n asterisks from index i on
StarsAt(s, i, n) ==
  /\ i >= 1
  /\ i + n - 1 <= Len(s)
  /\ \A k \in i..(i + n - 1) : s[k] = "*"

\* the indices at which the closing marker of \*{n}(.+?)\*{n} can match when
\* the opening marker matched at i: at least one character in between, none
\* of them a newline
Closings(s, i, n) ==
  { j \in (i + n + 1)..(Len(s) - n + 1) :
      /\ StarsAt(s, j, n)
      /\ \A k \in (i + n)..(j - 1) : s[k] # NL }

Min(S) == CHOOSE x \in S : \A y \in S : x <= y

\* re.sub(r"\*{n}(.+?)\*{n}", open \1 close, s) from index i on: leftmost
\* match, shortest group, then on after the match
RECURSIVE SubEmphasis(_, _, _, _, _)
SubEmphasis(s, i, n, open, close) ==
  IF i > Len(s) THEN <<>>
  ELSE IF StarsAt(s, i, n) /\ Closings(s, i, n) # {}
    THEN LET j == Min(Closings(s, i, n))
         IN  open \o SubSeq(s, i + n, j - 1) \o close
             \o SubEmphasis(s, j + n, n, open, close)
    ELSE <<s[i]>> \o SubEmphasis(s, i + 1, n, open, close)

\* re.sub(r"^\s*>\s?", "", s)
SubBlockquote(s) ==
  LET i == SkipWhile(s, 1, " ") IN
  IF i <= Len(s) /\ s[i] = ">"
    THEN IF i + 1 <= Len(s) /\ s[i + 1] = " "
           THEN SubSeq(s, i + 2, Len(s))
           ELSE SubSeq(s, i + 1, Len(s))
    ELSE s

\* the end of the match of ^#{1,max}\s+ in s, 0 when it does not match
HeadingEnd(s, max) ==
  LET h == SkipWhile(s, 1, "#") - 1
      e == SkipWhile(s, h + 1, " ")
  IN  IF h >= 1 /\ h <= max /\ e > h + 1 THEN e - 1 ELSE 0

\* re.sub(r"^#{1,6}\s+", "", s)
SubHeadingClean(s) ==
  IF HeadingEnd(s, 6) > 0 THEN SubSeq(s, HeadingEnd(s, 6) + 1, Len(s)) ELSE s

\* re.sub(r"^(#{1,3})\s+(.*)$", BOLD \2 RESET, s, flags=re.MULTILINE) on a
\* text of one line
SubHeadingRich(s) ==
  IF HeadingEnd(s, 3) > 0
    THEN ANSI_BOLD \o SubSeq(s, HeadingEnd(s, 3) + 1, Len(s)) \o ANSI_RESET
    ELSE s

\* a horizontal rule that must start at the first character
IsRule_NoLeadingSpace(s) ==
  LET j == SkipWhile(s, 1, "-")
  IN  j - 1 >= 3 /\ SkipWhile(s, j, " ") = Len(s) + 1

\* re.match(r"^\s*-{3,}\s*$", s)
IsRule(s) ==
  LET i == SkipWhile(s, 1, " ")
      j == SkipWhile(s, i, "-")
  IN  j - i >= 3 /\ SkipWhile(s, j, " ") = Len(s) + 1

\* Markdown.style(text) under STYLE_MODE = mode and TERM.ansi = ansi
style(s, mode, ansi) ==
  IF mode = "clean"
    THEN LET t1 == SubEmphasis(s, 1, 2, <<>>, <<>>)
             t2 == SubEmphasis(t1, 1, 1, <<>>, <<>>)
             t3 == SubBlockquote(t2)
             t4 == SubHeadingClean(t3)
         IN  IF IsRule(t4) THEN None ELSE Str(RStrip(t4))
  ELSE IF ~ansi THEN Str(s)
  ELSE LET t1 == SubEmphasis(s, 1, 2, ANSI_BOLD, ANSI_RESET)
           t2 == SubEmphasis(t1, 1, 1, ANSI_GRAY, ANSI_RESET)
       IN  Str(SubHeadingRich(t2))

\* the fallback width of Terminal.width
TermWidth == 80

\* textwrap.fill(s, width, replace_whitespace=False, drop_whitespace=False)
\* for a text without tab or newline that fits the width: all its chunks go
\* on one line and none is dropped.  A longer text is broken into several
\* lines; that case is left undefined, the lines of the model all fit.
fill(s, width) ==
  CASE Len(s) <= width /\ ~Contains(s, NL) -> s

\* Renderer.prose with "if not styled" in place of "if styled is None"
prose_print_SkipEmpty(line, mode, ansi) ==
  LET styled == style(RStrip(line), mode, ansi) IN
  IF styled = None \/ styled.value = <<>> THEN <<>>
  ELSE <<fill(styled.value, TermWidth)>>

\* what Renderer.prose(line) prints: nothing, or one print call
prose_print(line, mode, ansi) ==
  LET styled == style(RStrip(line), mode, ansi) IN
  IF styled = None THEN <<>>
  ELSE <<fill(styled.value, TermWidth)>>

\* the style modes main can set: plain and clean disable ANSI, rich keeps
\* what sys.stdout.isatty() said
Configs ==
  { [mode |-> "rich", ansi |-> TRUE], [mode |-> "rich", ansi |-> FALSE],
    [mode |-> "plain", ansi |-> FALSE], [mode |-> "clean", ansi |-> FALSE] }

StyleChars == { "*", ">", "#", "-", " ", "t" }

\* lines with stacked markers, headings of every level and rules
StyleExamples ==
  { <<">", " ", ">", " ", "t">>,
    <<"#", " ", ">", " ", "t">>,
    <<"*", "*", "*", "*", "t", "*", "*", "*", "*">>,
    <<"#", "#", "#", "#", " ", "t">>,
    <<"#", "#", "#", "#", "#", "#", " ", "t">>,
    <<"#", "#", "#", "#", "#", "#", "#", " ", "t">>,
    <<" ", "-", "-", "-", " ">>,
    <<"-", "-", "-", "-", "-">> }

StyleLines ==
  UNION { [1..n -> StyleChars] : n \in 0..MaxStyleLen } \cup StyleExamples

InitStyle ==
  /\ text = <<>>
  /\ pos = 0
  /\ skipped = 0
  /\ streamed = StreamCollector
  /\ whole = StreamCollector
  /\ tb = TbIdle
  /\ convo = ConvoIdle
  /\ \E l \in StyleLines, c \in Configs :
       md = [pc |-> "run", mode |-> c.mode, ansi |-> c.ansi, line |-> l,
             arg |-> <<>>, styled |-> None, applied |-> 0, printed |-> <<>>]

\* Markdown.style called on the line, then again on its own result
MarkdownStyle ==
  /\ md.pc \in {"run", "printed"}
  /\ md.applied < MaxApplied
  /\ md.applied > 0 => md.styled # None
  /\ LET a == IF md.applied = 0 THEN md.line ELSE md.styled.value
     IN  md' = [md EXCEPT !.arg = a,
                          !.styled = style(a, md.mode, md.ansi),
                          !.applied = md.applied + 1]
  /\ UNCHANGED <<text, pos, skipped, streamed, whole, tb, convo>>

\* Renderer.prose(line)
RendererProse ==
  /\ md.pc = "run"
  /\ md' = [md EXCEPT !.pc = "printed",
                      !.printed = md.printed
                                  \o prose_print(md.line, md.mode, md.ansi)]
  /\ UNCHANGED <<text, pos, skipped, streamed, whole, tb, convo>>

NextStyle ==
  \/ MarkdownStyle
  \/ RendererProse

SpecStyle == InitStyle /\ [][NextStyle]_vars

\* ------------------------------------------------------------------------
\* Renderer.table: parsing, numeric columns, normalized rows, alignment
\* (the headers and cells of the model are plain words and numbers, which
\* Markdown.style leaves as they are)
\* ------------------------------------------------------------------------
\* str.splitlines on a text whose only line break is "\n"
RECURSIVE splitlines(_)
splitlines(s) ==
  IF s = <<>> THEN <<>>
  ELSE IF ~Contains(s, NL) THEN <<s>>
  ELSE <<SplitHead(s)>> \o splitlines(SplitRest(s))

\* [l.rstrip() for l in ls if l.strip()]
RECURSIVE NonBlankRStripped(_)
NonBlankRStripped(ls) ==
  IF ls = <<>> THEN <<>>
  ELSE (IF Strip(Head(ls)) # <<>> THEN <<RStrip(Head(ls))>> ELSE <<>>)
       \o NonBlankRStripped(Tail(ls))

\* str.strip("|")
RECURSIVE StripPipes(_)
StripPipes(s) ==
  IF s # <<>> /\ Head(s) = "|" THEN StripPipes(Tail(s))
  ELSE IF s # <<>> /\ s[Len(s)] = "|"
    THEN StripPipes(SubSeq(s, 1, Len(s) - 1))
  ELSE s

\* str.split("|")
RECURSIVE SplitPipe(_)
SplitPipe(s) ==
  IF ~Contains(s, "|") THEN <<s>>
  ELSE LET i == CHOOSE i \in DOMAIN s :
                  s[i] = "|" /\ \A j \in 1..(i - 1) : s[j] # "|"
       IN  <<SubSeq(s, 1, i - 1)>> \o SplitPipe(SubSeq(s, i + 1, Len(s)))

\* [c.strip() for c in line.strip("|").split("|")]
ParseCells(line) ==
  LET parts == SplitPipe(StripPipes(line))
  IN  [i \in DOMAIN parts |-> Strip(parts[i])]

\* the rows of lines[2:] that hold a pipe, parsed
RECURSIVE ParseRows(_)
ParseRows(ls) ==
  IF ls = <<>> THEN <<>>
  ELSE (IF Contains(Head(ls), "|") THEN <<ParseCells(Head(ls))>> ELSE <<>>)
       \o ParseRows(Tail(ls))

\* re.sub(r"[,%\s]", "", v), and v.replace(".", "")
RECURSIVE Remove(_, _)
Remove(s, chars) ==
  IF s = <<>> THEN <<>>
  ELSE (IF Head(s) \in chars THEN <<>> ELSE <<Head(s)>>)
       \o Remove(Tail(s), chars)

Digits == { "0", "1", "2", "3", "4", "5", "6", "7", "8", "9" }

\* str.isdigit on ASCII text
isdigit(s) == s # <<>> /\ \A i \in DOMAIN s : s[i] \in Digits

is_numeric_column(idx, rows) ==
  \A k \in DOMAIN rows :
    /\ idx <= Len(rows[k])
    /\ isdigit(Remove(Remove(rows[k][idx], {",", "%", " ", NL}), {"."}))

\* the normalization of one row without the truncation of long rows
NormalizeRow_NoTruncate(r, col_count) ==
  IF Len(r) < col_count
    THEN r \o [i \in 1..(col_count - Len(r)) |-> <<>>]
    ELSE r

\* the normalization of one row: pad with empty cells or truncate
NormalizeRow(r, col_count) ==
  IF Len(r) < col_count
    THEN r \o [i \in 1..(col_count - Len(r)) |-> <<>>]
  ELSE IF Len(r) > col_count
    THEN SubSeq(r, 1, col_count)
  ELSE r

\* Renderer.table(markdown_block) up to the rows and alignments given to
\* PrettyTable
TableOf(markdown_block) ==
  LET lines      == NonBlankRStripped(splitlines(markdown_block))
      headers    == ParseCells(lines[1])
      rows       == ParseRows(SubSeq(lines, 3, Len(lines)))
      col_count  == Len(headers)
      numeric    == { i \in 1..col_count : is_numeric_column(i, rows) }
  IN  [headers |-> headers,
       rows |-> rows,
       col_count |-> col_count,
       numeric_cols |-> numeric,
       normalized_rows |->
         [k \in DOMAIN rows |-> NormalizeRow(rows[k], col_count)],
       align |-> [i \in 1..col_count |->
                    IF i \in numeric THEN "r" ELSE "l"]]

\* ------------------------------------------------------------------------
\* Renderer.table: the two passes and the widths
\* ------------------------------------------------------------------------
Max2(a, b) == IF a >= b THEN a ELSE b

Min2(a, b) == IF a <= b THEN a ELSE b

\* str.split(sep) for a separator of one character
RECURSIVE Split(_, _)
Split(s, sep) ==
  IF ~Contains(s, sep) THEN <<s>>
  ELSE LET i == CHOOSE i \in DOMAIN s :
                  s[i] = sep /\ \A j \in 1..(i - 1) : s[j] # sep
       IN  <<SubSeq(s, 1, i - 1)>> \o Split(SubSeq(s, i + 1, Len(s)), sep)

\* the text PrettyTable measures: the escape sequences ESC [ ... m removed
RECURSIVE StripAnsi(_)
StripAnsi(s) ==
  IF s = <<>> THEN <<>>
  ELSE IF Head(s) = "ESC" /\ Len(s) >= 2 /\ s[2] = "["
    THEN LET j == CHOOSE j \in 3..(Len(s) + 1) :
                    /\ j = Len(s) + 1 \/ s[j] \notin Digits \cup {";"}
                    /\ \A k \in 3..(j - 1) : s[k] \in Digits \cup {";"}
         IN  IF j <= Len(s) /\ s[j] = "m"
               THEN StripAnsi(SubSeq(s, j + 1, Len(s)))
               ELSE <<Head(s)>> \o StripAnsi(Tail(s))
  ELSE <<Head(s)>> \o StripAnsi(Tail(s))

\* the width PrettyTable gives a text: its longest line, escapes not counted
BlockWidth(s) ==
  LET ls == Split(s, NL)
      n  == CHOOSE n \in 0..Len(s) :
              /\ \A k \in DOMAIN ls : Len(StripAnsi(ls[k])) <= n
              /\ \E k \in DOMAIN ls : Len(StripAnsi(ls[k])) = n
  IN  n

\* str(value) as PrettyTable formats a header or a cell
StrOf(v) == IF v = None THEN <<"N", "o", "n", "e">> ELSE v.value

\* n dashes
Dashes(n) == [i \in 1..n |-> "-"]

\* the first line of table.get_string(): the top border, a "+" and, for
\* each column, its width and one blank of padding on each side in dashes
\* and a "+"
RECURSIVE Border(_)
Border(widths) ==
  IF widths = <<>> THEN <<"+">>
  ELSE Border(SubSeq(widths, 1, Len(widths) - 1))
       \o Dashes(widths[Len(widths)] + 2) \o <<"+">>

HARD_MAX_COL_WIDTH == 35

\* the wrap width without the lower limit of 5
wrap_width_NoFloor(col_width) == col_width - 2

\* wrap_width = max(5, col_widths[idx] - 2)
wrap_width(col_width) == Max2(5, col_width - 2)

\* pass 1 and the widths of pass 2 for the table t parsed by TableOf; the
\* wrap widths are those of the columns of a row, a table without rows has
\* no cell to wrap
WidthsOf(t, mode, ansi) ==
  LET styled_headers ==
        [i \in 1..t.col_count |-> StrOf(style(t.headers[i], mode, ansi))]
      pass1 ==
        [k \in DOMAIN t.normalized_rows |->
          [i \in 1..t.col_count |->
            IF t.normalized_rows[k][i] # <<>>
              THEN StrOf(style(t.normalized_rows[k][i], mode, ansi))
              ELSE <<>>]]
      widths ==
        [i \in 1..t.col_count |->
          LET cells == { BlockWidth(pass1[k][i]) : k \in DOMAIN pass1 }
                         \cup { BlockWidth(styled_headers[i]) }
          IN  CHOOSE w \in cells : \A x \in cells : x <= w]
      first_border == Border(widths)
      segs       == Split(first_border, "+")
      raw_widths == [i \in 1..(Len(segs) - 2) |-> Len(segs[i + 1])]
      col_widths ==
        [i \in 1..t.col_count |->
          Min2(HARD_MAX_COL_WIDTH,
               Max2(Len(t.headers[i]) + 2, raw_widths[i]))]
  IN  [raw_widths |-> raw_widths,
       col_widths |-> col_widths,
       wrap_widths |->
         IF t.normalized_rows = <<>> THEN <<>>
         ELSE [i \in 1..t.col_count |-> wrap_width(col_widths[i])]]

\* the cells the blocks of the model are written from
CellSet ==
  { <<>>, <<"a">>, <<"1", ",", "2">>, <<"1", ".", "5", "%">>,
    <<"1", ".", "2", ".", "3">> }

HeaderSet == { << <<"h">> >>, << <<"h">>, <<"g">> >> }

RowSet == UNION { [1..n -> CellSet] : n \in 1..MaxCells }

RowSeqs == UNION { [1..n -> RowSet] : n \in 0..MaxRows }

\* a table line as markdown writes it:  | c1 | c2 |
RECURSIVE RowLine(_)
RowLine(cells) ==
  IF cells = <<>> THEN <<"|">>
  ELSE RowLine(SubSeq(cells, 1, Len(cells) - 1))
       \o <<" ">> \o cells[Len(cells)] \o <<" ", "|">>

\* the separator of two dash groups, the shortest TableState.feed accepts
SeparatorLine == <<"|", "-", "-", "-", "|", "-", "-", "-", "|">>

BlockOf(hdr, rs) ==
  Join(<<RowLine(hdr), SeparatorLine>> \o [k \in DOMAIN rs |-> RowLine(rs[k])])

InitGrid ==
  /\ text = <<>>
  /\ pos = 0
  /\ skipped = 0
  /\ streamed = StreamCollector
  /\ whole = StreamCollector
  /\ md = MdIdle
  /\ convo = ConvoIdle
  /\ \E hdr \in HeaderSet, rs \in RowSeqs :
       tb = [TbIdle EXCEPT !.pc = "run", !.block = BlockOf(hdr, rs),
                           !.hdr = hdr, !.src_rows = rs]

\* Renderer.table(block)
RendererTable ==
  /\ tb.pc = "run"
  /\ LET t == TableOf(tb.block)
         w == WidthsOf(t, tb.mode, tb.ansi)
     IN  tb' = [tb EXCEPT !.pc = "done",
                          !.headers = t.headers,
                          !.rows = t.rows,
                          !.col_count = t.col_count,
                          !.numeric_cols = t.numeric_cols,
                          !.normalized_rows = t.normalized_rows,
                          !.align = t.align,
                          !.raw_widths = w.raw_widths,
                          !.col_widths = w.col_widths,
                          !.wrap_widths = w.wrap_widths]
  /\ UNCHANGED <<text, pos, skipped, streamed, whole, md, convo>>

NextGrid == RendererTable

SpecGrid == InitGrid /\ [][NextGrid]_vars

\* the tables the widths are followed on: headers and cells with emphasis
\* markers, and cells and a header around the hard cap; a row shorter than
\* the header brings in the empty cell
Rep(ch, n) == [i \in 1..n |-> ch]

WidthHeaders ==
  { <<"h">>, <<"*", "*", "g", "*", "*">>, Rep("H", HARD_MAX_COL_WIDTH + 1) }

WidthCellSet ==
  { <<"a">>, <<"*", "*", "a", "*", "*">>,
    Rep("w", HARD_MAX_COL_WIDTH - 2), Rep("w", HARD_MAX_COL_WIDTH - 1) }

\* PrettyTable takes field names that differ from each other
WidthHeaderSet ==
  { hdr \in UNION { [1..n -> WidthHeaders] : n \in 1..MaxWidthCols } :
      \A i, j \in DOMAIN hdr : hdr[i] = hdr[j] => i = j }

WidthRowSet == UNION { [1..n -> WidthCellSet] : n \in 1..MaxWidthCols }

WidthRowSeqs == UNION { [1..n -> WidthRowSet] : n \in 0..MaxWidthRows }

InitWidths ==
  /\ text = <<>>
  /\ pos = 0
  /\ skipped = 0
  /\ streamed = StreamCollector
  /\ whole = StreamCollector
  /\ md = MdIdle
  /\ convo = ConvoIdle
  /\ \E hdr \in WidthHeaderSet, rs \in WidthRowSeqs, cfg \in Configs :
       tb = [TbIdle EXCEPT !.pc = "run", !.block = BlockOf(hdr, rs),
                           !.hdr = hdr, !.src_rows = rs,
                           !.mode = cfg.mode, !.ansi = cfg.ansi]

SpecWidths == InitWidths /\ [][NextGrid]_vars

\* ------------------------------------------------------------------------
\* Conversation and "/cmd history <n>"
\* ------------------------------------------------------------------------
\* a message is a record of its role and its content
Message(role, content) == [role |-> role, content |-> content]

\* s[k:] of Python: from index k on when k >= 0, the last -k elements when
\* k < 0 (all of s when it has no more than that)
SliceFrom(s, k) ==
  IF k >= 0 THEN SubSeq(s, k + 1, Len(s))
  ELSE IF -k >= Len(s) THEN s
  ELSE SubSeq(s, Len(s) + k + 1, Len(s))

\* Conversation.add(role, content): the new list of messages
add(c, role, content) ==
  LET appended == Append(c.messages, Message(role, content))
  IN  SliceFrom(appended, (-c.max_pairs) * 2)

\* Conversation.build(system_prompt); "" is the empty system prompt
build(c, system_prompt) ==
  (IF system_prompt # "" THEN <<Message("system", system_prompt)>> ELSE <<>>)
  \o SliceFrom(c.messages, (-c.max_pairs) * 2)

\* the values of --history and of "/cmd history <n>": any int is accepted
PairsSet == (-1)..MaxPairs

RoleSet == {"user", "assistant"}

StoredSeqs ==
  UNION { [1..n -> {Message(r, "q") : r \in RoleSet}] : n \in 0..MaxStored }

\* convo = Conversation(cfg.history)
InitConvo ==
  /\ text = <<>>
  /\ pos = 0
  /\ skipped = 0
  /\ streamed = StreamCollector
  /\ whole = StreamCollector
  /\ md = MdIdle
  /\ tb = TbIdle
  /\ \E h \in PairsSet :
       convo = [op |-> "init", max_pairs |-> h, messages |-> <<>>,
                msgs |-> <<>>]

\* convo.messages = load_conversation_history(): the stored messages, which
\* are not cut to the context window
ConvoLoad ==
  /\ convo.op = "init"
  /\ \E stored \in StoredSeqs :
       convo' = [convo EXCEPT !.op = "load", !.messages = stored]
  /\ UNCHANGED <<text, pos, skipped, streamed, whole, md, tb>>

\* convo.add(role, content); the lists followed are those of at most
\* MaxMessages messages
ConvoAdd ==
  /\ convo.op # "off"
  /\ \E role \in RoleSet :
       /\ Len(add(convo, role, "q")) <= MaxMessages
       /\ convo' = [convo EXCEPT !.op = "add",
                                 !.messages = add(convo, role, "q"),
                                 !.msgs = <<>>]
  /\ UNCHANGED <<text, pos, skipped, streamed, whole, md, tb>>

\* "/cmd history <n>"
CmdHistory ==
  /\ convo.op # "off"
  /\ \E val \in PairsSet :
       convo' = [convo EXCEPT !.op = "history",
                              !.max_pairs = val,
                              !.messages =
                                SliceFrom(convo.messages, (-val) * 2),
                              !.msgs = <<>>]
  /\ UNCHANGED <<text, pos, skipped, streamed, whole, md, tb>>

\* convo.build(cfg.system_prompt), whose value goes into the payload
ConvoBuild ==
  /\ convo.op \in {"add", "history"}
  /\ \E system_prompt \in {"", "s"} :
       convo' = [convo EXCEPT !.op = "build",
                              !.msgs = build(convo, system_prompt)]
  /\ UNCHANGED <<text, pos, skipped, streamed, whole, md, tb>>

NextConvo ==
  \/ ConvoLoad
  \/ ConvoAdd
  \/ CmdHistory
  \/ ConvoBuild

SpecConvo == InitConvo /\ [][NextConvo]_vars

\* ------------------------------------------------------------------------
\* Vocabulary of the properties
\* ------------------------------------------------------------------------
\* the content consumed by the step, and the buffer the while loop starts on
Delta ==
  SubSeq(streamed'.full_text, Len(streamed.full_text) + 1,
         Len(streamed'.full_text))

Buf == streamed.partial \o Delta

\* the renderer calls made by the step
NewOut == SubSeq(streamed'.out, Len(streamed.out) + 1, Len(streamed'.out))

NLCount(s) == Cardinality({i \in DOMAIN s : s[i] = NL})

\* a round of collect that feeds exactly one line to the detector
OneLine ==
  /\ streamed.pc = "run"
  /\ streamed'.pc = "run"
  /\ NLCount(Buf) = 1

Line == SplitHead(Buf)

\* a round of collect that feeds no line to the detector
NoLine ==
  /\ streamed.pc = "run"
  /\ streamed'.pc = "run"
  /\ NLCount(Buf) = 0

\* the step that ends the stream
EndOfStream == streamed.pc = "run" /\ streamed'.pc = "done"

Idle(t) == t.state = "NONE" /\ t.lines = <<>>

\* C1: when the same text has been consumed fragment by fragment by collect
\* and in one piece by collect_text, both made the same sequence of calls to
\* Renderer.prose and Renderer.table, whatever the partition into fragments
\* (empty fragments and splits inside a line included).
C1_StreamingEquivalence ==
  (streamed.pc = "done" /\ whole.pc = "done") => streamed.out = whole.out

C1_Witness ==
  /\ streamed.pc = "done"
  /\ whole.pc = "done"
  /\ skipped = 1
  /\ text = <<"a", NL, "|", NL, "-", "|", "-", NL, "a">>
  /\ streamed.out = <<prose(<<"a">>), table(<<"|", NL, "-", "|", "-">>),
                      prose(<<"a">>)>>

\* C4: when the stream ends while the detector is in TABLE, the end step
\* calls Renderer.table exactly once, with the buffered lines, before the
\* partial line if any, and leaves the detector in NONE with no lines.
C4_EndOfStreamTableFlush ==
  [][(EndOfStream /\ streamed.table.state = "TABLE") =>
       /\ NewOut = <<table(Join(streamed.table.lines))>>
                   \o (IF Strip(streamed.partial) # <<>>
                         THEN <<prose(streamed.partial)>> ELSE <<>>)
       /\ Idle(streamed'.table)]_vars

C4_Witness ==
  /\ streamed.pc = "done"
  /\ text = <<"|", NL, "-", "|", "-", NL>>
  /\ streamed.out = <<table(<<"|", NL, "-", "|", "-">>)>>
  /\ Idle(streamed.table)

\* C2: at the end of the stream every line the detector still holds is
\* rendered: a header candidate as prose, a table as a table, and a
\* non-blank partial line as prose.
C2_NoSilentDropAtEnd ==
  [][EndOfStream =>
       /\ streamed.table.state = "HEADER" =>
            \E i \in DOMAIN NewOut : NewOut[i] = prose(streamed.table.lines[1])
       /\ streamed.table.state = "TABLE" =>
            \E i \in DOMAIN NewOut :
               NewOut[i] = table(Join(streamed.table.lines))
       /\ Strip(streamed.partial) # <<>> =>
            NewOut[Len(NewOut)] = prose(streamed.partial)
       /\ streamed.table.state = "HEADER" /\ Strip(streamed.partial) # <<>> =>
            Len(NewOut) = 2]_vars

\* the lines of a text: the pieces between its newlines, the tail included
RECURSIVE SplitLines(_)
SplitLines(s) ==
  IF ~Contains(s, NL) THEN <<s>>
  ELSE <<SplitHead(s)>> \o SplitLines(SplitRest(s))

\* the newline-terminated lines of a text
TerminatedLines(s) ==
  LET ls == SplitLines(s) IN SubSeq(ls, 1, Len(ls) - 1)

\* the lines handed to the renderers by a sequence of calls, call by call
RECURSIVE RenderedLines(_)
RenderedLines(calls) ==
  IF calls = <<>> THEN <<>>
  ELSE (IF Head(calls).fn = "table" THEN SplitLines(Head(calls).arg)
                                    ELSE <<Head(calls).arg>>)
       \o RenderedLines(Tail(calls))

Count(x, seq) == Cardinality({i \in DOMAIN seq : seq[i] = x})

\* C3: when the collector has finished, every newline-terminated line of the
\* input has been handed to a renderer exactly once (the calls for the
\* terminated lines are all the calls but the one for a non-blank tail).
C3_EachLineExactlyOnce ==
  streamed.pc = "done" =>
    LET calls == IF Strip(streamed.partial) # <<>>
                   THEN SubSeq(streamed.out, 1, Len(streamed.out) - 1)
                   ELSE streamed.out
    IN  \A l \in LineSet :
          Count(l, RenderedLines(calls)) = Count(l, TerminatedLines(text))

\* C5: in HEADER, a line that does not match the separator pattern makes the
\* step call Renderer.prose on the buffered header and then on that line,
\* and nothing else, and leaves the detector in NONE with no lines.
C5_HeaderAbandonRecovery ==
  [][(OneLine /\ streamed.table.state = "HEADER"
        /\ ~IsSeparator(Strip(Line))) =>
       /\ NewOut = <<prose(streamed.table.lines[1]), prose(Line)>>
       /\ Idle(streamed'.table)]_vars

C5_Witness ==
  /\ streamed.pc = "run"
  /\ streamed.full_text = <<"|", NL, "a", NL>>
  /\ streamed.out = <<prose(<<"|">>), prose(<<"a">>)>>
  /\ Idle(streamed.table)

\* C6: both entry points return the full accumulated text, the concatenation
\* of all the content consumed.
C6_ReturnsFullText ==
  /\ streamed.pc = "done" =>
       streamed.full_text = text /\ streamed.ret = Str(text)
  /\ whole.pc = "done" =>
       whole.full_text = text /\ whole.ret = Str(text)

\* one group of dashes, optionally bordered by pipes:  ^\|?\s*-+\s*\|?$
SingleDashGroup(s) ==
  /\ s # <<>>
  /\ LET i == IF s[1] = "|" THEN 2 ELSE 1
         j == SkipWhile(s, i, " ")
         k == SkipWhile(s, j, "-")
         e == SkipWhile(s, k, " ")
     IN  /\ k > j
         /\ \/ e = Len(s) + 1
            \/ e = Len(s) /\ s[e] = "|"

\* C7: in HEADER, a line made of one or more groups of dashes (a single
\* group such as |-| included) moves the detector to TABLE, is appended to
\* the buffer and makes no renderer call.
C7_SeparatorEntersTable ==
  [][(OneLine /\ streamed.table.state = "HEADER"
        /\ (IsSeparator(Strip(Line)) \/ SingleDashGroup(Strip(Line)))) =>
       /\ streamed'.table.state = "TABLE"
       /\ streamed'.table.lines = Append(streamed.table.lines, Line)
       /\ NewOut = <<>>]_vars

\* C8: in NONE, a line with a pipe moves the detector to HEADER with exactly
\* that line buffered and makes no renderer call, and no call is made while
\* the header waits for the next line; a line without a pipe is rendered as
\* prose at once and leaves the detector in NONE with no lines.
C8_IdleTransitions ==
  [][/\ (OneLine /\ streamed.table.state = "NONE") =>
          IF Contains(Line, "|")
            THEN /\ streamed'.table = [state |-> "HEADER", lines |-> <<Line>>]
                 /\ NewOut = <<>>
            ELSE /\ NewOut = <<prose(Line)>>
                 /\ Idle(streamed'.table)
     /\ (NoLine /\ streamed.table.state = "HEADER") =>
          /\ NewOut = <<>>
          /\ streamed'.table = streamed.table]_vars

C8_Witness ==
  /\ streamed.pc = "run"
  /\ streamed.full_text = <<"a", NL, "|", NL, "-">>
  /\ streamed.out = <<prose(<<"a">>)>>
  /\ streamed.table = [state |-> "HEADER", lines |-> <<<<"|">>>>]

\* C9: in TABLE, a line with a pipe is appended to the buffer and makes no
\* renderer call; a line without a pipe makes the step render the buffered
\* lines as one table, then the line as prose if it is not empty, and leaves
\* the detector in NONE with no lines.
C9_InTableTransitions ==
  [][(OneLine /\ streamed.table.state = "TABLE") =>
       IF Contains(Line, "|")
         THEN /\ streamed'.table =
                   [state |-> "TABLE",
                    lines |-> Append(streamed.table.lines, Line)]
              /\ NewOut = <<>>
         ELSE /\ NewOut = <<table(Join(streamed.table.lines))>>
                          \o (IF Line # <<>> THEN <<prose(Line)>> ELSE <<>>)
              /\ Idle(streamed'.table)]_vars

C9_Witness ==
  /\ streamed.pc = "run"
  /\ streamed.full_text = <<"|", NL, "-", "|", "-", NL, " ", NL>>
  /\ streamed.out = <<table(<<"|", NL, "-", "|", "-">>), prose(<<" ">>)>>
  /\ Idle(streamed.table)

\* state and buffer of a detector agree
Consistent(t) ==
  /\ t.state \in {"NONE", "HEADER", "TABLE"}
  /\ t.lines = <<>> <=> t.state = "NONE"
  /\ t.state = "HEADER" => Len(t.lines) = 1 /\ Contains(t.lines[1], "|")
  /\ t.state = "TABLE" =>
       /\ Len(t.lines) >= 2
       /\ Contains(t.lines[1], "|")
       /\ IsSeparator(Strip(t.lines[2]))
       /\ \A i \in 3..Len(t.lines) : Contains(t.lines[i], "|")

\* C10: in every reachable state the buffer is empty exactly in NONE, holds
\* one line in HEADER and the header, a separator and the rows in TABLE; and
\* every step in which the detector releases its buffer (FLUSH_BACK or
\* FLUSH_TABLE returned by feed, FLUSH_TABLE returned by flush_tail) leaves
\* it in NONE with no lines.
C10_StateBufferConsistent ==
  /\ [](Consistent(streamed.table) /\ Consistent(whole.table))
  /\ [][/\ (OneLine /\ streamed.table.state # "NONE" /\ NewOut # <<>>) =>
             Idle(streamed'.table)
        /\ (EndOfStream /\ streamed.table.state = "TABLE") =>
             Idle(streamed'.table)]_vars

C10_Witness ==
  /\ streamed.pc = "run"
  /\ streamed.full_text = <<"|", NL, "-", "|", "-", NL, "a", NL>>
  /\ streamed.out = <<table(<<"|", NL, "-", "|", "-">>), prose(<<"a">>)>>
  /\ Consistent(streamed.table)
  /\ Idle(streamed.table)

\* a is b with some elements left out
RECURSIVE IsSubseq(_, _)
IsSubseq(a, b) ==
  IF a = <<>> THEN TRUE
  ELSE IF b = <<>> THEN FALSE
  ELSE IF Head(a) = Head(b) THEN IsSubseq(Tail(a), Tail(b))
  ELSE IsSubseq(a, Tail(b))

\* C11: at every moment the lines handed to the renderers so far (prose
\* lines and the lines of table blocks, in call order) appear in the order
\* in which they arrived: they are the consumed lines with some left out,
\* never reordered.
C11_OutputFollowsInputOrder ==
  /\ IsSubseq(RenderedLines(streamed.out), SplitLines(streamed.full_text))
  /\ IsSubseq(RenderedLines(whole.out), SplitLines(whole.full_text))

C11_Witness ==
  /\ streamed.pc = "done"
  /\ whole.pc = "done"
  /\ text = <<"|", NL, "-", "|", "-", NL, "a", NL, "|">>
  /\ RenderedLines(streamed.out) =
       << <<"|">>, <<"-", "|", "-">>, <<"a">>, <<"|">> >>

\* the step in which the content source fails
SourceError == streamed.pc = "run" /\ streamed'.pc = "error"

\* C12: when the content source raises in the middle of the stream, the
\* lines the detector holds and a non-blank partial line are rendered before
\* the failure leaves the collector.
C12_FlushOnSourceError ==
  [][SourceError =>
       /\ streamed.table.state = "HEADER" =>
            \E i \in DOMAIN NewOut : NewOut[i] = prose(streamed.table.lines[1])
       /\ streamed.table.state = "TABLE" =>
            \E i \in DOMAIN NewOut :
               NewOut[i] = table(Join(streamed.table.lines))
       /\ Strip(streamed.partial) # <<>> =>
            /\ NewOut # <<>>
            /\ NewOut[Len(NewOut)] = prose(streamed.partial)]_vars

\* C20: the end of the stream never feeds the partial line to the detector:
\* the end step renders the table held in TABLE, without the partial line,
\* then the partial line as prose when it is not blank (a pipe in it makes
\* no difference), and nothing else; collect_text ends the same way.
C20_PartialNeverFed ==
  /\ [][EndOfStream =>
          /\ NewOut =
               (IF streamed.table.state = "TABLE"
                  THEN <<table(Join(streamed.table.lines))>> ELSE <<>>)
               \o (IF Strip(streamed.partial) # <<>>
                     THEN <<prose(streamed.partial)>> ELSE <<>>)
          /\ streamed'.partial = streamed.partial
          /\ streamed.table.state # "TABLE" =>
               streamed'.table = streamed.table]_vars
  /\ [](whole.pc = "done" =>
          LET tail == SplitLines(text)[Len(SplitLines(text))]
              rest == IF Strip(tail) # <<>>
                        THEN SubSeq(whole.out, 1, Len(whole.out) - 1)
                        ELSE whole.out
          IN  /\ whole.partial = tail
              /\ Strip(tail) # <<>> =>
                   /\ whole.out # <<>>
                   /\ whole.out[Len(whole.out)] = prose(tail)
              /\ IsSubseq(RenderedLines(rest), TerminatedLines(text)))

C20_Witness ==
  /\ streamed.pc = "done"
  /\ text = <<"|", NL, "-", "|", "-", NL, "|">>
  /\ streamed.out = <<table(<<"|", NL, "-", "|", "-">>), prose(<<"|">>)>>
  /\ streamed.partial = <<"|">>
  /\ Idle(streamed.table)

\* the lines b[i], b[i+1], b[i+2] occur consecutively in a
HasRun3(a, b, i) ==
  \E j \in 1..(Len(a) - 2) :
    a[j] = b[i] /\ a[j + 1] = b[i + 1] /\ a[j + 2] = b[i + 2]

\* C19: when the collector has finished, every pipe line that was followed
\* at once by a separator line and a pipe line has been handed, with them, to
\* Renderer.table, whatever came before it in the stream.
C19_WellFormedTableRendered ==
  streamed.pc = "done" =>
    LET ls == TerminatedLines(text) IN
    \A i \in 1..(Len(ls) - 2) :
      (/\ Contains(ls[i], "|")
       /\ IsSeparator(Strip(ls[i + 1]))
       /\ Contains(ls[i + 2], "|")) =>
        \E c \in DOMAIN streamed.out :
          /\ streamed.out[c].fn = "table"
          /\ HasRun3(SplitLines(streamed.out[c].arg), ls, i)

\* C13 as stated: an empty line fed to the detector yields one blank output
\* line (a call of Renderer.prose on it, which prints an empty line) in
\* whichever state it arrives.
C13_EmptyLinePreserved_AnyState ==
  [][(OneLine /\ Line = <<>>) =>
       /\ Count(prose(<<>>), NewOut) = 1
       /\ \A c \in Configs : prose_print(<<>>, c.mode, c.ansi) = << <<>> >>]_vars

\* C13, amended: an empty line that arrives in NONE or HEADER yields one
\* blank output line (Renderer.prose is called on it, last, and prints an
\* empty line in every style mode); an empty line that arrives in TABLE ends
\* the table and yields no output line of its own.
C13_EmptyLinePreserved ==
  [][(OneLine /\ Line = <<>>) =>
       IF streamed.table.state = "TABLE"
         THEN NewOut = <<table(Join(streamed.table.lines))>>
         ELSE /\ Count(prose(<<>>), NewOut) = 1
              /\ NewOut[Len(NewOut)] = prose(<<>>)
              /\ \A c \in Configs :
                   prose_print(<<>>, c.mode, c.ansi) = << <<>> >>]_vars

C13_Witness ==
  /\ streamed.pc = "run"
  /\ streamed.full_text = <<"|", NL, NL>>
  /\ streamed.out = <<prose(<<"|">>), prose(<<>>)>>
  /\ prose_print(streamed.out[2].arg, "clean", FALSE) = << <<>> >>

\* C16: in Clean mode, styling the text that styling returned gives that
\* text back unchanged.
C16_CleanIdempotent ==
  (md.pc # "off" /\ md.mode = "clean" /\ md.applied = 2) =>
    md.styled = Str(md.arg)

\* a line made of three or more dashes and nothing else but surrounding
\* blanks
DashesOnly(s) ==
  /\ Len(Strip(s)) >= 3
  /\ \A i \in DOMAIN Strip(s) : Strip(s)[i] = "-"

PlainHeading(s) ==
  LET h == SkipWhile(s, 1, "#") - 1 IN
  /\ h >= 1
  /\ h <= 6
  /\ Len(s) >= h + 2
  /\ s[h + 1] = " "
  /\ \A i \in (h + 2)..Len(s) : s[i] = "t"

Title(s) == SubSeq(s, SkipWhile(s, 1, "#") + 1, Len(s))

\* C18: a heading of level 1 to 6 is printed without its hashes, bold in
\* Rich mode on a color-capable terminal, as it is in Clean mode.
C18_HeadingStyled ==
  (md.pc = "printed" /\ PlainHeading(md.line)) =>
    /\ (md.mode = "rich" /\ md.ansi) =>
         md.printed = <<ANSI_BOLD \o Title(md.line) \o ANSI_RESET>>
    /\ md.mode = "clean" => md.printed = <<Title(md.line)>>

\* the row r cut or filled with empty cells to n cells
PadTrunc(r, n) == [i \in 1..n |-> IF i <= Len(r) THEN r[i] ELSE <<>>]

\* C14: the column count is the number of header cells, no data row is
\* rejected, and every row given to the grid has exactly that many cells:
\* the cells it was written with, cut to the first N or filled with empty
\* cells.
C14_RowsNormalized ==
  tb.pc = "done" =>
    /\ tb.headers = tb.hdr
    /\ tb.col_count = Len(tb.hdr)
    /\ Len(tb.normalized_rows) = Len(tb.src_rows)
    /\ \A k \in DOMAIN tb.normalized_rows :
         /\ Len(tb.normalized_rows[k]) = tb.col_count
         /\ tb.normalized_rows[k] = PadTrunc(tb.src_rows[k], tb.col_count)

C14_Witness ==
  /\ tb.pc = "done"
  /\ tb.col_count = 2
  /\ tb.src_rows = << << <<"a">> >>, << <<"1", ",", "2">>, <<"a">> >> >>
  /\ tb.normalized_rows =
       << << <<"a">>, <<>> >>, << <<"1", ",", "2">>, <<"a">> >> >>

\* a non-negative decimal: digits with at most one point
IsDecimal(v) ==
  /\ \A i \in DOMAIN v : v[i] \in Digits \cup {"."}
  /\ \E i \in DOMAIN v : v[i] \in Digits
  /\ Cardinality({i \in DOMAIN v : v[i] = "."}) <= 1

\* C15: a column is right-aligned exactly when every cell of it, commas,
\* percent signs and blanks removed, is a non-negative decimal.
C15_NumericAlignment ==
  tb.pc = "done" =>
    \A i \in 1..tb.col_count :
      tb.align[i] = "r" <=>
        \A k \in DOMAIN tb.normalized_rows :
          IsDecimal(Remove(tb.normalized_rows[k][i], {",", "%", " "}))

\* the buffer of c holds no newline, and the text accumulated by c is the
\* lines it has fed, each with its newline, followed by the buffer
Buffered(c) ==
  /\ ~Contains(c.partial, NL)
  /\ c.full_text = TextOf(c.fed, c.partial)

\* C21: after every fragment consumed by collect, and after collect_text,
\* the partial buffer holds no newline and the accumulated text is the lines
\* fed to the detector, in order and each followed by a newline, followed
\* by the partial buffer.
C21_PartialIsSuffix ==
  /\ Buffered(streamed)
  /\ Buffered(whole)
  /\ streamed.full_text = SubSeq(text, 1, pos)
  /\ whole.pc = "done" => whole.full_text = text

C21_Witness ==
  /\ streamed.pc = "run"
  /\ streamed.fed = << <<"a">>, <<>> >>
  /\ streamed.partial = <<"|">>
  /\ streamed.full_text = <<"a", NL, NL, "|">>
  /\ whole.pc = "done"
  /\ whole.fed = << <<"a">>, <<>> >>
  /\ whole.partial = <<"|">>

\* the messages of ms that are not the system message
NonSystem(ms) == { i \in DOMAIN ms : ms[i].role # "system" }

\* the bound holds for a context window of at least one pair
C22_BoundedWhenPositive ==
  convo.max_pairs >= 1 =>
    /\ convo.op \in {"add", "history"} =>
         Len(convo.messages) <= 2 * convo.max_pairs
    /\ convo.op = "build" =>
         Cardinality(NonSystem(convo.msgs)) <= 2 * convo.max_pairs

\* C22: for every max_pairs >= 0, 0 included, after an add or a change of
\* the history size the conversation holds at most 2 * max_pairs messages,
\* and build returns at most 2 * max_pairs messages besides the system
\* message.
C22_ContextBounded ==
  convo.max_pairs >= 0 =>
    /\ convo.op \in {"add", "history"} =>
         Len(convo.messages) <= 2 * convo.max_pairs
    /\ convo.op = "build" =>
         Cardinality(NonSystem(convo.msgs)) <= 2 * convo.max_pairs

\* min(35, max(header_length + 2, natural_width)) for column i of the table
\* rendered, natural_width being the width read from the border of pass 1
Clamped(i) ==
  Min2(HARD_MAX_COL_WIDTH, Max2(Len(tb.headers[i]) + 2, tb.raw_widths[i]))

\* the width the cells of every column are wrapped to is
\* min(35, max(header_length + 2, natural_width)), at most 35
C23_WrapWidthIsClamped ==
  tb.pc = "done" =>
    \A i \in DOMAIN tb.wrap_widths :
      /\ tb.wrap_widths[i] = Clamped(i)
      /\ tb.wrap_widths[i] <= HARD_MAX_COL_WIDTH

\* C23: the width the cells of every column are wrapped to is
\* max(5, min(35, max(header_length + 2, natural_width)) - 2): the clamped
\* column width less the two blanks of padding, and at least 5; it lies
\* between 5 and 33 and so never exceeds the hard cap of 35.
C23_WrapWidth ==
  tb.pc = "done" =>
    \A i \in DOMAIN tb.wrap_widths :
      /\ tb.wrap_widths[i] = Max2(5, Clamped(i) - 2)
      /\ tb.wrap_widths[i] >= 5
      /\ tb.wrap_widths[i] <= HARD_MAX_COL_WIDTH - 2

C23_Witness ==
  /\ tb.pc = "done"
  /\ tb.mode = "rich"
  /\ tb.ansi
  /\ tb.headers = << <<"h">>, <<"*", "*", "g", "*", "*">> >>
  /\ tb.raw_widths = <<HARD_MAX_COL_WIDTH + 1, 3>>
  /\ tb.col_widths = <<HARD_MAX_COL_WIDTH, 7>>
  /\ tb.wrap_widths = <<HARD_MAX_COL_WIDTH - 2, 5>>

====
